---- MODULE Spec2Model ----
(***************************************************************************)
(* The layout engine of postermaker.py: Photo, PhotoExtent, Column and     *)
(* Page, with phase A (Page.fill / Page.append), phase B (Page.eat_space), *)
(* phase C (Page.eat_space2) and the ranking functions.                    *)
(*                                                                         *)
(* Python floats are modelled as exact numbers.  A number is a triple      *)
(* <<n, d, k>> standing for n/d + k * 2^31, with d > 0 and n/d in lowest   *)
(* terms; k is only non-zero for the sentinels 2**31 and 2**32 of the      *)
(* source and for sums that contain them.                                  *)
(***************************************************************************)
EXTENDS Integers, Sequences, FiniteSets, TLC

\* ---- bounds of the model ----
MaxPhotos == 4
MaxCols == 3
\* the photo sizes (real_w, real_h) a photo list is drawn from
PhotoDims == {<<1, 1>>, <<2, 1>>, <<5, 1>>, <<1, 2>>}
\* the page widths a Page is built with: Page(1.0, no_cols); the layout
\* scales linearly with the page width
PageWidths == {1}

\* ---- exact arithmetic ----
Abs(n) == IF n < 0 THEN -n ELSE n

RECURSIVE GCD(_, _)
GCD(a, b) == IF b = 0 THEN a ELSE GCD(b, a % b)

Norm(n, d, k) ==
    LET g == GCD(Abs(n), d) IN <<n \div g, d \div g, k>>

Num(n) == <<n, 1, 0>>
Zero == Num(0)
One == Num(1)
Two == Num(2)
Half == <<1, 2, 0>>
\* 2**31 and 2**32
Pow2_31 == <<0, 1, 1>>
Pow2_32 == <<0, 1, 2>>

RAdd(a, b) ==
    LET g == GCD(a[2], b[2])
        L == (a[2] \div g) * b[2]
    IN  Norm(a[1] * (L \div a[2]) + b[1] * (L \div b[2]), L, a[3] + b[3])

RNeg(a) == <<-a[1], a[2], -a[3]>>
RSub(a, b) == RAdd(a, RNeg(b))

RLess(a, b) ==
    IF a[3] # b[3] THEN a[3] < b[3]
    ELSE LET g == GCD(a[2], b[2])
             L == (a[2] \div g) * b[2]
         IN  a[1] * (L \div a[2]) < b[1] * (L \div b[2])

RLeq(a, b) == ~RLess(b, a)
RAbs(a) == IF RLess(a, Zero) THEN RNeg(a) ELSE a
RMin(a, b) == IF RLess(b, a) THEN b ELSE a
RMax(a, b) == IF RLess(a, b) THEN b ELSE a

\* products and quotients are only taken of numbers below 2^31 (k = 0)
RMul(a, b) ==
    IF a[3] # 0 \/ b[3] # 0 THEN <<>>
    ELSE LET g1 == GCD(Abs(a[1]), b[2])
             g2 == GCD(Abs(b[1]), a[2])
         IN  <<(a[1] \div g1) * (b[1] \div g2), (a[2] \div g2) * (b[2] \div g1), 0>>

RInv(a) == IF a[1] > 0 THEN <<a[2], a[1], 0>> ELSE <<-a[2], -a[1], 0>>
\* a / b for b # 0; the callers test b = 0 (ZeroDivisionError) first
RDiv(a, b) == IF a[3] # 0 \/ b[3] # 0 THEN <<>> ELSE RMul(a, RInv(b))

\* ---- state ----
VARIABLES
    pc,       \* position of the caller: "A", "B", "afterB", "C", "afterC", "ranked"
    page_w,   \* Page.w
    no_cols,  \* Page.no_cols
    cols,     \* Page.cols: sequence of Column records [x, w, h, imglist]
    photos,   \* the Photo objects, by id
    extents,  \* the PhotoExtent objects, by id
    H,        \* local H of Page.eat_space
    x,        \* local x of Page.eat_space2
    k,        \* index of the column the running loop of eat_space / eat_space2 is at
    filled,   \* history: the sizes of the photos handed to Page.append so far
    snapA,    \* history: cols, photos and extents as they stood when eat_space was called
    photosB,  \* history: photos as they stood when eat_space2 was called
    wasted,   \* outcome of Page.wasted_space(): the value returned or the exception raised
    hidden    \* outcome of Page.hidden_space(): the value returned or the exception raised

vars == <<pc, page_w, no_cols, cols, photos, extents, H, x, k, filled, snapA, photosB, wasted, hidden>>

\* outcome of a call: a returned number, or the name of the exception raised
Return(v) == [err |-> "none", val |-> v]
Raise(e) == [err |-> e, val |-> Zero]
NotCalled == [err |-> "not called", val |-> Zero]

\* an entry of Column.imglist: a Photo (isExtent = FALSE) or a PhotoExtent, by id
Item(isExt, id) == [isExtent |-> isExt, id |-> id]

\* Photo.__init__(imagefile, w, h): x = y = 0
Photo(w, h) ==
    [real_w |-> w, real_h |-> h, w |-> w, h |-> h, x |-> Zero, y |-> Zero,
     extended |-> FALSE, spacings |-> <<>>]

\* PhotoExtent.__init__(img, x, y): a Photo built from img.w, img.h at x, y
PhotoExtent(img_id, img, ex, ey) ==
    [img_ref |-> img_id, w |-> img.w, h |-> img.h, x |-> ex, y |-> ey]

\* Column.__init__(x, w)
Column(cx, cw) == [x |-> cx, w |-> cw, h |-> Zero, imglist |-> <<>>]

\* Page.__init__: no_cols columns of width w / no_cols, side by side
RECURSIVE Page_cols(_, _, _, _)
Page_cols(n, i, cx, col_w) ==
    IF i > n THEN <<>>
    ELSE <<Column(cx, col_w)>> \o Page_cols(n, i + 1, RAdd(cx, col_w), col_w)

\* variant: the column width taken by integer division, w // no_cols
Page_init_floordiv(w, n) == Page_cols(n, 1, Zero, Num(w[1] \div (w[2] * n)))

Page_init(w, n) == Page_cols(n, 1, Zero, RDiv(w, Num(n)))

Init ==
    /\ pc = "A"
    /\ page_w \in {Num(w) : w \in PageWidths}
    /\ no_cols \in 1..MaxCols
    /\ cols = Page_init(page_w, no_cols)
    /\ photos = <<>>
    /\ extents = <<>>
    /\ H = Zero
    /\ x = Zero
    /\ k = 0
    /\ filled = <<>>
    /\ snapA = [cols |-> <<>>, photos |-> <<>>, extents |-> <<>>]
    /\ photosB = <<>>
    /\ wasted = NotCalled
    /\ hidden = NotCalled

\* ---- phase A ----

\* Page.next_col: index of the first column of smallest height (0 stands for None)
RECURSIVE next_col_loop(_, _, _, _)
next_col_loop(C, i, cur_min, index) ==
    IF i > Len(C) THEN index
    ELSE IF RLess(C[i].h, cur_min)
         THEN next_col_loop(C, i + 1, C[i].h, i)
         ELSE next_col_loop(C, i + 1, cur_min, index)

next_col(C) == next_col_loop(C, 1, Pow2_31, 0)

\* the test of Page.worth_multicol on neighbour j of column i
close_heights(C, i, j) ==
    RLess(RAbs(RSub(C[j].h, C[i].h)), RMul(Half, C[i].w))

\* Page.worth_multicol: the sorted pair [i, j], or <<>> for None
worth_multicol(C) ==
    LET i == next_col(C)
        lo == IF i - 1 < 1 THEN 1 ELSE i - 1
        hi == IF i + 1 > Len(C) THEN Len(C) ELSE i + 1
        cand == {j \in lo..hi : j # i /\ close_heights(C, i, j)}
    IN  IF cand = {} THEN <<>>
        ELSE LET j == CHOOSE c \in cand : \A d \in cand : c <= d
             IN  IF i < j THEN <<i, j>> ELSE <<j, i>>

\* variant: the aspect test taken as img.w / img.h >= 1
landscape_or_square(img) == RLeq(One, RDiv(img.w, img.h))

\* the aspect test of Page.append: img.w / img.h > 1
landscape(img) == RLess(One, RDiv(img.w, img.h))

\* Page.append, first branch: the photo spans the two columns of multicol
append_multicol(multicol, img) ==
    LET id == Len(photos) + 1
        sid == Len(extents) + 1
        a == multicol[1]
        b == multicol[2]
        iy == RMax(cols[a].h, cols[b].h)
        iw == RAdd(RAdd(Zero, cols[a].w), cols[b].w)
        ih == RDiv(RMul(iw, img.real_h), img.real_w)
        placed == [img EXCEPT !.x = cols[a].x, !.y = iy, !.w = iw, !.h = ih,
                              !.extended = TRUE, !.spacings = <<sid>>]
        s == PhotoExtent(id, placed, cols[b].x, cols[b].h)
    IN  /\ photos' = Append(photos, placed)
        /\ extents' = Append(extents, s)
        /\ cols' = [cols EXCEPT
                      ![a].imglist = Append(@, Item(FALSE, id)),
                      ![a].h = RAdd(iy, ih),
                      ![b].imglist = Append(@, Item(TRUE, sid)),
                      ![b].h = RAdd(iy, ih)]

\* Page.append, else branch: the photo goes to the first shortest column
append_single(img) ==
    LET id == Len(photos) + 1
        c == next_col(cols)
        ih == RDiv(RMul(cols[c].w, img.real_h), img.real_w)
        placed == [img EXCEPT !.x = cols[c].x, !.y = cols[c].h, !.w = cols[c].w, !.h = ih]
    IN  /\ photos' = Append(photos, placed)
        /\ extents' = extents
        /\ cols' = [cols EXCEPT ![c].imglist = Append(@, Item(FALSE, id)),
                                ![c].h = RAdd(@, ih)]

\* Page.append(img) for the next photo of the list Page.fill walks;
\* coin is the outcome of random.randint(0, 1)
append(dims, coin) ==
    LET img == Photo(Num(dims[1]), Num(dims[2]))
        multicol == worth_multicol(cols)
    IN  /\ pc = "A"
        /\ Len(photos) < MaxPhotos
        /\ IF multicol # <<>> /\ landscape(img) /\ coin = 1
           THEN append_multicol(multicol, img)
           ELSE append_single(img)
        /\ filled' = Append(filled, dims)
        /\ UNCHANGED <<pc, page_w, no_cols, H, x, k, snapA, photosB, wasted, hidden>>

\* Page.get_width
RECURSIVE sum_col_w(_, _)
sum_col_w(C, i) == IF i > Len(C) THEN Zero ELSE RAdd(C[i].w, sum_col_w(C, i + 1))

Page_get_width(C) == sum_col_w(C, 1)

\* Page.get_height
RECURSIVE max_col_h(_, _)
max_col_h(C, i) ==
    IF i = Len(C) THEN C[i].h ELSE RMax(C[i].h, max_col_h(C, i + 1))

Page_get_height(C) == max_col_h(C, 1)

\* ---- phase B ----

\* Column.adjust_height, first loop: the "movable" groups between the extents
RECURSIVE adjust_height_groups(_, _, _, _, _)
adjust_height_groups(imglist, i, groups, E, height) ==
    LET last == Len(groups) IN
    IF i > Len(imglist)
    THEN [groups EXCEPT ![last].h = RSub(height, groups[last].y)]
    ELSE IF ~imglist[i].isExtent
         THEN adjust_height_groups(imglist, i + 1,
                  [groups EXCEPT ![last].imglist = Append(@, imglist[i].id)], E, height)
         ELSE LET s == E[imglist[i].id] IN
              adjust_height_groups(imglist, i + 1,
                  Append([groups EXCEPT ![last].h = RSub(s.y, groups[last].y)],
                         [imglist |-> <<>>, y |-> RAdd(s.y, s.h), h |-> Zero]),
                  E, height)

groups_of(col, E, height) ==
    adjust_height_groups(col.imglist, 1, <<[imglist |-> <<>>, y |-> Zero, h |-> Zero]>>,
                         E, height)

\* sum(i.h for i in group["imglist"])
RECURSIVE sum_h(_, _, _)
sum_h(ids, i, P) ==
    IF i > Len(ids) THEN Zero ELSE RAdd(P[ids[i]].h, sum_h(ids, i + 1, P))

\* variant: only the height is propagated to the spacings
RECURSIVE sync_spacings_h_only(_, _, _, _)
sync_spacings_h_only(spacings, i, img, E) ==
    IF i > Len(spacings) THEN E
    ELSE sync_spacings_h_only(spacings, i + 1, img, [E EXCEPT ![spacings[i]].h = img.h])

\* for s in img.spacings: s.y = img.y; s.h = img.h
RECURSIVE sync_spacings(_, _, _, _)
sync_spacings(spacings, i, img, E) ==
    IF i > Len(spacings) THEN E
    ELSE sync_spacings(spacings, i + 1, img,
                       [E EXCEPT ![spacings[i]].y = img.y, ![spacings[i]].h = img.h])

\* variant: the width is not recomputed from the new height
adjust_img_keep_w(img, y, alpha) ==
    [img EXCEPT !.y = y, !.h = RMul(img.h, alpha)]

\* the body of the loop over the images of a group, for one image
adjust_img(img, y, alpha) ==
    LET nh == RMul(img.h, alpha)
        nw == RDiv(RMul(nh, img.real_w), img.real_h)
    IN  [img EXCEPT !.y = y, !.h = nh,
                    !.x = RAdd(@, RDiv(RSub(img.w, nw), Two)),
                    !.w = nw]

\* variant: the spacings are set from the image before it is moved and resized
RECURSIVE adjust_group_imgs_sync_first(_, _, _, _, _, _)
adjust_group_imgs_sync_first(ids, i, y, alpha, P, E) ==
    IF i > Len(ids) THEN [photos |-> P, extents |-> E]
    ELSE LET img == adjust_img(P[ids[i]], y, alpha)
         IN  adjust_group_imgs_sync_first(ids, i + 1, RAdd(y, img.h), alpha,
                               [P EXCEPT ![ids[i]] = img],
                               sync_spacings(img.spacings, 1, P[ids[i]], E))

\* Column.adjust_height, the loop over the images of one group
RECURSIVE adjust_group_imgs(_, _, _, _, _, _)
adjust_group_imgs(ids, i, y, alpha, P, E) ==
    IF i > Len(ids) THEN [photos |-> P, extents |-> E]
    ELSE LET img == adjust_img(P[ids[i]], y, alpha)
         IN  adjust_group_imgs(ids, i + 1, RAdd(y, img.h), alpha,
                               [P EXCEPT ![ids[i]] = img],
                               sync_spacings(img.spacings, 1, img, E))

\* Column.adjust_height, second loop: each group stretched to its height;
\* err is "ZeroDivisionError" when a group's images have total height 0
RECURSIVE adjust_groups(_, _, _, _)
adjust_groups(groups, gi, P, E) ==
    IF gi > Len(groups) THEN [photos |-> P, extents |-> E, err |-> "none"]
    ELSE LET g == groups[gi] IN
         IF Len(g.imglist) = 0 THEN adjust_groups(groups, gi + 1, P, E)
         ELSE LET total == sum_h(g.imglist, 1, P) IN
              IF total = Zero
              THEN [photos |-> P, extents |-> E, err |-> "ZeroDivisionError"]
              ELSE LET r == adjust_group_imgs(g.imglist, 1, g.y, RDiv(g.h, total), P, E)
                   IN  adjust_groups(groups, gi + 1, r.photos, r.extents)

\* Column.adjust_height(H) on column c
adjust_height(c, height) ==
    LET r == adjust_groups(groups_of(cols[c], extents, height), 1, photos, extents)
    IN  /\ photos' = r.photos
        /\ extents' = r.extents
        /\ IF r.err = "none"
           THEN /\ cols' = [cols EXCEPT ![c].h = height]
                /\ pc' = IF c = no_cols THEN "afterB" ELSE "B"
                /\ k' = c + 1
           ELSE /\ cols' = cols
                /\ pc' = r.err
                /\ k' = k

\* sum([c.h for c in self.cols])
RECURSIVE sum_col_h(_, _)
sum_col_h(C, i) == IF i > Len(C) THEN Zero ELSE RAdd(C[i].h, sum_col_h(C, i + 1))

\* variant: the common height taken as the height of the tallest column
target_height_tallest(C, n) == Page_get_height(C)

\* the common height of Page.eat_space
target_height(C, n) == RDiv(sum_col_h(C, 1), Num(n))

\* Page.eat_space is called: H is computed, the loop over the columns starts
eat_space ==
    /\ pc = "A"
    /\ H' = target_height(cols, no_cols)
    /\ snapA' = [cols |-> cols, photos |-> photos, extents |-> extents]
    /\ k' = 1
    /\ pc' = "B"
    /\ UNCHANGED <<page_w, no_cols, cols, photos, extents, x, filled, photosB, wasted, hidden>>

\* one iteration of the loop of Page.eat_space: c.adjust_height(H)
eat_space_step ==
    /\ pc = "B"
    /\ adjust_height(k, H)
    /\ UNCHANGED <<page_w, no_cols, H, x, filled, snapA, photosB, wasted, hidden>>

\* ---- phase C ----

\* min() of a non-empty set of numbers
min_of(S) == CHOOSE m \in S : \A o \in S : RLeq(m, o)

\* variant: an extent counts with half its own w instead of half its photo's w
get_width_extent_own_w(col, P, E) ==
    LET idx == 1..Len(col.imglist)
        imgs == {P[col.imglist[i].id].w :
                    i \in {j \in idx : ~col.imglist[j].isExtent
                                       /\ ~P[col.imglist[j].id].extended}}
        exts == {RDiv(P[col.imglist[i].id].w, Two) :
                    i \in {j \in idx : ~col.imglist[j].isExtent
                                       /\ P[col.imglist[j].id].extended}}
        spcs == {RDiv(E[col.imglist[i].id].w, Two) :
                    i \in {j \in idx : col.imglist[j].isExtent}}
        m1 == IF imgs # {} THEN min_of(imgs) ELSE Pow2_32
        m2 == IF exts # {} THEN RMin(m1, min_of(exts)) ELSE m1
    IN  IF spcs # {} THEN RMin(m2, min_of(spcs)) ELSE m2

\* Column.get_width: the width of the smallest image of the column
get_width(col, P, E) ==
    LET idx == 1..Len(col.imglist)
        imgs == {P[col.imglist[i].id].w :
                    i \in {j \in idx : ~col.imglist[j].isExtent
                                       /\ ~P[col.imglist[j].id].extended}}
        exts == {RDiv(P[col.imglist[i].id].w, Two) :
                    i \in {j \in idx : ~col.imglist[j].isExtent
                                       /\ P[col.imglist[j].id].extended}}
        spcs == {RDiv(P[E[col.imglist[i].id].img_ref].w, Two) :
                    i \in {j \in idx : col.imglist[j].isExtent}}
        m0 == Pow2_32
        m1 == IF imgs # {} THEN min_of(imgs) ELSE m0
        m2 == IF exts # {} THEN RMin(m1, min_of(exts)) ELSE m1
        m3 == IF spcs # {} THEN RMin(m2, min_of(spcs)) ELSE m2
    IN  m3

\* Column.adjust_width, the loop over the images of a column at cx of width cw
RECURSIVE adjust_width_imgs(_, _, _, _, _, _)
adjust_width_imgs(imglist, i, cx, cw, P, E) ==
    IF i > Len(imglist) THEN P
    ELSE LET it == imglist[i] IN
         IF ~it.isExtent
         THEN adjust_width_imgs(imglist, i + 1, cx, cw,
                  [P EXCEPT ![it.id].x = RAdd(cx, RDiv(RSub(cw, P[it.id].w), Two))], E)
         ELSE adjust_width_imgs(imglist, i + 1, cx, cw,
                  [P EXCEPT ![E[it.id].img_ref].x = RAdd(@, RDiv(cw, Two))], E)

\* Page.eat_space2 is called: x = 0, the loop over the columns starts
eat_space2 ==
    /\ pc = "afterB"
    /\ x' = Zero
    /\ k' = 1
    /\ pc' = "C"
    /\ photosB' = photos
    /\ UNCHANGED <<page_w, no_cols, cols, photos, extents, H, filled, snapA, wasted, hidden>>

\* one iteration of the loop of Page.eat_space2: c.x = x; c.adjust_width(); x += c.w
eat_space2_step ==
    LET cw == get_width(cols[k], photos, extents) IN
    /\ pc = "C"
    /\ cols' = [cols EXCEPT ![k].x = x, ![k].w = cw]
    /\ photos' = adjust_width_imgs(cols[k].imglist, 1, x, cw, photos, extents)
    /\ x' = RAdd(x, cw)
    /\ k' = k + 1
    /\ pc' = IF k = no_cols THEN "afterC" ELSE "C"
    /\ UNCHANGED <<page_w, no_cols, extents, H, filled, snapA, photosB, wasted, hidden>>

\* ---- ranking functions ----

\* x, y, w, h of an entry of Column.imglist
rect(it, P, E) == IF it.isExtent THEN E[it.id] ELSE P[it.id]

\* variant: the side waste is added without testing img.w < self.w
RECURSIVE waste_sides_unguarded(_, _, _, _)
waste_sides_unguarded(col, i, P, E) ==
    IF i > Len(col.imglist) THEN Zero
    ELSE LET img == rect(col.imglist[i], P, E)
         IN  RAdd(RMul(img.h, RSub(col.w, img.w)), waste_sides_unguarded(col, i + 1, P, E))

\* Column.wasted_space: waste on left and right
RECURSIVE waste_sides(_, _, _, _)
waste_sides(col, i, P, E) ==
    IF i > Len(col.imglist) THEN Zero
    ELSE LET img == rect(col.imglist[i], P, E)
             rest == waste_sides(col, i + 1, P, E)
         IN  IF RLess(img.w, col.w)
             THEN RAdd(RMul(img.h, RSub(col.w, img.w)), rest)
             ELSE rest

\* Column.wasted_space: waste between non-adjacent images
RECURSIVE waste_gaps(_, _, _, _)
waste_gaps(col, i, P, E) ==
    IF i > Len(col.imglist) - 1 THEN Zero
    ELSE LET img0 == rect(col.imglist[i], P, E)
             img1 == rect(col.imglist[i + 1], P, E)
             rest == waste_gaps(col, i + 1, P, E)
         IN  IF RLess(RAdd(img0.y, img0.h), img1.y)
             THEN RAdd(RMul(col.w, RSub(img1.y, RAdd(img0.y, img0.h))), rest)
             ELSE rest

\* Column.wasted_space; self.imglist[-1] raises IndexError on an empty column
Column_wasted_space(col, P, E) ==
    IF Len(col.imglist) = 0 THEN Raise("IndexError")
    ELSE LET img0 == rect(col.imglist[Len(col.imglist)], P, E)
             waste == RAdd(waste_sides(col, 1, P, E), waste_gaps(col, 1, P, E))
         IN  IF RLess(RAdd(img0.y, img0.h), col.h)
             THEN Return(RAdd(waste, RMul(col.w, RSub(col.h, RAdd(img0.y, img0.h)))))
             ELSE Return(waste)

\* Column.hidden_space, from image i on; a division by a zero width raises
RECURSIVE hidden_from(_, _, _, _)
hidden_from(col, i, P, E) ==
    IF i > Len(col.imglist) THEN Return(Zero)
    ELSE LET it == col.imglist[i]
             ref == IF it.isExtent THEN P[E[it.id].img_ref] ELSE P[it.id]
             over == IF it.isExtent
                     THEN RLess(RAdd(col.x, col.w), RAdd(ref.x, ref.w))
                     ELSE RLess(ref.x, col.x)
             part == IF it.isExtent
                     THEN RSub(RAdd(ref.x, ref.w), RAdd(col.x, col.w))
                     ELSE RSub(col.x, ref.x)
         IN  IF over /\ ref.w = Zero THEN Raise("ZeroDivisionError")
             ELSE LET rest == hidden_from(col, i + 1, P, E) IN
                  IF rest.err # "none" THEN rest
                  ELSE IF over THEN Return(RAdd(RDiv(part, ref.w), rest.val)) ELSE rest

Column_hidden_space(col, P, E) == hidden_from(col, 1, P, E)

\* sum of a metric over the columns; the first exception wins
RECURSIVE sum_metric(_, _)
sum_metric(vals, i) ==
    IF i > Len(vals) THEN Return(Zero)
    ELSE IF vals[i].err # "none" THEN vals[i]
    ELSE LET rest == sum_metric(vals, i + 1) IN
         IF rest.err # "none" THEN rest ELSE Return(RAdd(vals[i].val, rest.val))

\* sum(len(c.imglist) for c in self.cols)
RECURSIVE count_items(_, _)
count_items(C, i) ==
    IF i > Len(C) THEN 0 ELSE Len(C[i].imglist) + count_items(C, i + 1)

\* Page.wasted_space
Page_wasted_space(C, P, E) ==
    LET total == sum_metric([c \in 1..Len(C) |-> Column_wasted_space(C[c], P, E)], 1)
    IN  IF total.err # "none" THEN total
        ELSE LET area == RMul(Page_get_width(C), Page_get_height(C)) IN
             IF area = Zero THEN Raise("ZeroDivisionError")
             ELSE Return(RDiv(total.val, area))

\* Page.hidden_space
Page_hidden_space(C, P, E) ==
    LET total == sum_metric([c \in 1..Len(C) |-> Column_hidden_space(C[c], P, E)], 1)
        n == count_items(C, 1)
    IN  IF total.err # "none" THEN total
        ELSE IF n = 0 THEN Raise("ZeroDivisionError") ELSE Return(RDiv(total.val, Num(n)))

\* the caller ranks the finished page: page.wasted_space()
rank_wasted ==
    /\ pc = "afterC"
    /\ wasted = NotCalled
    /\ wasted' = Page_wasted_space(cols, photos, extents)
    /\ UNCHANGED <<pc, page_w, no_cols, cols, photos, extents, H, x, k, filled, snapA, photosB, hidden>>

\* the caller ranks the finished page: page.hidden_space()
rank_hidden ==
    /\ pc = "afterC"
    /\ hidden = NotCalled
    /\ hidden' = Page_hidden_space(cols, photos, extents)
    /\ UNCHANGED <<pc, page_w, no_cols, cols, photos, extents, H, x, k, filled, snapA, photosB, wasted>>

Next ==
    \/ eat_space2
    \/ eat_space2_step
    \/ rank_wasted
    \/ rank_hidden
    \/ eat_space
    \/ eat_space_step
    \/ \E dims \in PhotoDims, coin \in {0, 1} : append(dims, coin)

Spec == Init /\ [][Next]_vars

\* ---- properties ----

\* Page.eat_space has returned (phase B is over)
AfterB == pc \in {"afterB", "C", "afterC"}
\* Page.eat_space2 has not started (phases A and B)
BeforeC == pc \in {"A", "B", "afterB"}

RECURSIVE SumSeq(_, _)
SumSeq(q, i) == IF i > Len(q) THEN Zero ELSE RAdd(q[i], SumSeq(q, i + 1))

\* C1: through construction, every append of phase A and all of phase B, the
\* column widths add up to the page width and every column still has the
\* width page_w / no_cols it was built with.
WidthConservation ==
    BeforeC =>
        /\ SumSeq([c \in 1..Len(cols) |-> cols[c].w], 1) = page_w
        /\ \A c \in 1..Len(cols) : RMul(cols[c].w, Num(no_cols)) = page_w

\* a page of several columns with an extended photo has finished phase B
\* with its widths intact
WidthConservationWitness ==
    /\ pc = "afterB"
    /\ no_cols >= 2
    /\ \E p \in 1..Len(photos) : photos[p].extended
    /\ \E p \in 1..Len(photos) : ~photos[p].extended
    /\ SumSeq([c \in 1..Len(cols) |-> cols[c].w], 1) = page_w

\* C2: after phase B every column has the height H, and H is the mean of
\* the column heights at the end of phase A.
HeightEqualization ==
    AfterB =>
        /\ \A c \in 1..Len(cols) : cols[c].h = H
        /\ RMul(H, Num(no_cols)) = SumSeq([c \in 1..Len(snapA.cols) |-> snapA.cols[c].h], 1)

\* phase B has levelled columns that ended phase A at different heights
HeightEqualizationWitness ==
    /\ pc = "afterB"
    /\ \E c, d \in 1..Len(cols) :
          /\ RLess(snapA.cols[c].h, snapA.cols[d].h)
          /\ cols[c].h = cols[d].h
          /\ cols[c].imglist # <<>>

\* C3: after phase B every non-extended photo is placed in its intrinsic
\* aspect ratio, and real_w, real_h are those the photo was built with.
AspectPreservation ==
    AfterB =>
        \A p \in 1..Len(photos) :
            /\ photos[p].real_w = Num(filled[p][1])
            /\ photos[p].real_h = Num(filled[p][2])
            /\ ~photos[p].extended =>
                  RMul(photos[p].w, photos[p].real_h) = RMul(photos[p].h, photos[p].real_w)

\* phase B has resized a non-extended photo that is not square
AspectPreservationWitness ==
    /\ pc = "afterB"
    /\ \E p \in 1..Len(photos) :
          /\ ~photos[p].extended
          /\ photos[p].real_w # photos[p].real_h
          /\ photos[p].h # snapA.photos[p].h
          /\ photos[p].h # Zero

\* C4: after phase B every extent has the y and h of the photo it references.
ExtentSynchronization ==
    AfterB =>
        \A e \in 1..Len(extents) :
            /\ extents[e].y = photos[extents[e].img_ref].y
            /\ extents[e].h = photos[extents[e].img_ref].h

\* phase B is over for a column holding two extents, one of which was
\* created at another y than its photo, and the photos were resized
ExtentSynchronizationWitness ==
    /\ pc = "afterB"
    /\ \E c \in 1..Len(cols) :
          \E i, j \in 1..Len(cols[c].imglist) :
              /\ i < j
              /\ cols[c].imglist[i].isExtent
              /\ cols[c].imglist[j].isExtent
    /\ \E e \in 1..Len(extents) :
          /\ snapA.extents[e].y # snapA.photos[extents[e].img_ref].y
          /\ extents[e].h # snapA.extents[e].h

\* the first column of smallest height: the target of the next append
FirstShortest(C) ==
    CHOOSE i \in 1..Len(C) :
        /\ \A c \in 1..Len(C) : RLeq(C[i].h, C[c].h)
        /\ \A c \in 1..(i - 1) : RLess(C[i].h, C[c].h)

\* what an extending append of photo id over the columns a < b must do
ExtendsOver(a, b, id) ==
    LET p == photos'[id]
        sid == Len(extents) + 1
    IN  /\ p.w = RAdd(cols[a].w, cols[b].w)
        /\ cols'[a].imglist = Append(cols[a].imglist, Item(FALSE, id))
        /\ Len(extents') = Len(extents) + 1
        /\ extents'[sid].img_ref = id
        /\ cols'[b].imglist = Append(cols[b].imglist, Item(TRUE, sid))
        /\ cols'[a].h = RAdd(p.y, p.h)
        /\ cols'[b].h = RAdd(p.y, p.h)
        /\ \A c \in 1..Len(cols) : c \notin {a, b} => cols'[c] = cols[c]

\* C5: an append extends its photo only if the photo is wider than high
\* and only over the first shortest column i and a direct neighbour j whose
\* height is within half of column i's width of column i's height; the
\* photo then spans both widths, sits in the left column with exactly one
\* extent in the right column, and both columns end at y + h.  A photo that
\* is not wider than high is never extended, then or later.
MulticolOnlyForLandscapeNeighbours ==
    [][/\ Len(photos') = Len(photos) + 1 =>
            LET id == Len(photos')
                p == photos'[id]
                i == FirstShortest(cols)
            IN  IF p.extended
                THEN /\ RLess(p.real_h, p.real_w)
                     /\ \E j \in {i - 1, i + 1} \cap (1..Len(cols)) :
                           /\ RLess(RAbs(RSub(cols[j].h, cols[i].h)),
                                    RDiv(cols[i].w, Two))
                           /\ IF i < j THEN ExtendsOver(i, j, id)
                                       ELSE ExtendsOver(j, i, id)
                ELSE extents' = extents
       /\ \A q \in 1..Len(photos) :
            /\ photos'[q].extended = photos[q].extended
            /\ photos[q].extended => RLess(photos[q].real_h, photos[q].real_w)
      ]_vars

\* phase A has extended a photo over two columns that, with the photo, end
\* at the same height, next to a photo that was not extended
MulticolWitness ==
    /\ pc = "A"
    /\ \E p \in 1..Len(photos) : \E c \in 1..(Len(cols) - 1) :
          /\ photos[p].extended
          /\ cols[c].imglist[Len(cols[c].imglist)] = Item(FALSE, p)
          /\ cols[c + 1].imglist[Len(cols[c + 1].imglist)].isExtent
          /\ cols[c].h = cols[c + 1].h
          /\ Len(cols[c].imglist) >= 2

\* the slot widths of the items of a column at the end of phase B: w of a
\* non-extended photo, w / 2 of an extended photo, (referenced photo's w) / 2
\* of an extent
SlotWidths(col) ==
    {IF col.imglist[i].isExtent
        THEN RDiv(photosB[extents[col.imglist[i].id].img_ref].w, Two)
        ELSE IF photosB[col.imglist[i].id].extended
                THEN RDiv(photosB[col.imglist[i].id].w, Two)
                ELSE photosB[col.imglist[i].id].w
     : i \in 1..Len(col.imglist)}

\* the columns Page.eat_space2 has processed so far
DoneC == IF pc = "C" THEN 1..(k - 1) ELSE IF pc = "afterC" THEN 1..Len(cols) ELSE {}

\* C6: once phase C has processed a column that holds items, the column's
\* w is the smallest slot width of its items as phase B left them, and
\* stays so while the later columns are processed.
WidthIsMinimumSlot ==
    \A c \in DoneC :
        cols[c].imglist # <<>> =>
            /\ cols[c].w \in SlotWidths(cols[c])
            /\ \A sw \in SlotWidths(cols[c]) : RLeq(cols[c].w, sw)

\* phase C is over on a page where a column with an extent and a photo was
\* narrowed and a later column was processed after it
WidthIsMinimumSlotWitness ==
    /\ pc = "afterC"
    /\ \E c \in 1..(Len(cols) - 1) :
          /\ \E i \in 1..Len(cols[c].imglist) : cols[c].imglist[i].isExtent
          /\ \E i \in 1..Len(cols[c].imglist) : ~cols[c].imglist[i].isExtent
          /\ RLess(cols[c].w, snapA.cols[c].w)
          /\ cols[c + 1].imglist # <<>>

\* the groups Column.adjust_height forms on the column phase B is at
GroupsAtK == groups_of(cols[k], extents, H)

AllColumnsFilled == \A c \in 1..Len(cols) : cols[c].imglist # <<>>

EmptyLayoutIsDefined ==
    /\ photos = <<>> => \A c \in 1..Len(cols) : cols[c].h = Zero
    /\ ~AllColumnsFilled =>
          /\ wasted # NotCalled =>
                \/ wasted = Return(Zero)
                \/ wasted.err = "EmptyLayout"
          /\ hidden # NotCalled =>
                \/ hidden = Return(Zero)
                \/ hidden.err = "EmptyLayout"
    /\ \A c \in DoneC : cols[c].imglist = <<>> => cols[c].w = Zero

\* C10: through phase A every extent has the y and the h of the extended
\* photo it references.
ExtentMirrorsPhotoInPhaseA ==
    pc = "A" =>
        \A e \in 1..Len(extents) :
            /\ extents[e].y = photos[extents[e].img_ref].y
            /\ extents[e].h = photos[extents[e].img_ref].h
====
